---------------------------- MODULE Spec2Model ----------------------------
(***************************************************************************)
(* Aurelia Studio: the audio processing utilities (preset chains, manual   *)
(* chain, processAudio dispatch, normalize) and the page that drives them. *)
(***************************************************************************)
EXTENDS Integers, Sequences, FiniteSets, TLC

(***************************************************************************)
(* Bounds of the model.                                                    *)
(***************************************************************************)
\* significand width of the single-precision model (the platform has 24)
MantBits == 5
\* largest channel count / frame count of the buffers that are enumerated
MaxChannels == 2
MaxFrames == 2
\* number of AudioBuffers the page may hold or have in the making (decoded
\* files, rendered buffers, renders in flight)
MaxBuffers == 3

(***************************************************************************)
(* JavaScript values that are not numbers or buffers.                      *)
(***************************************************************************)
\* an optional value is <<>> (undefined / null) or <<v>>
Undefined == <<>>
Some(v) == <<v>>
IsDefined(x) == x # <<>>
Val(x) == x[1]

(***************************************************************************)
(* Single-precision numbers.  A number is sign * m * 2^e with m = 0 or     *)
(* 2^(MantBits-1) <= m < 2^MantBits; every operation rounds to nearest,    *)
(* ties to even, as the Float32Array channel data and AudioParam values    *)
(* do.  Double-precision intermediates are kept as exact fractions.        *)
(***************************************************************************)
RECURSIVE Pow2(_)
Pow2(n) == IF n = 0 THEN 1 ELSE 2 * Pow2(n - 1)

MantLo == Pow2(MantBits - 1)
MantHi == Pow2(MantBits)

Zero == [s |-> 1, m |-> 0, e |-> 0]
\* the double Infinity, which no AudioParam accepts
Infinity == [s |-> 1, m |-> -1, e |-> 0]

\* Math.fround of the positive fraction n/d, scaled by 2^e
RECURSIVE RoundRat(_, _, _)
RoundRat(n, d, e) ==
    IF n < d * MantLo THEN RoundRat(2 * n, d, e - 1)
    ELSE IF n >= d * MantHi THEN RoundRat(n, 2 * d, e + 1)
    ELSE LET q == n \div d
             r == n % d
             up == (2 * r > d) \/ (2 * r = d /\ q % 2 = 1)
             m == IF up THEN q + 1 ELSE q
         IN  IF m = MantHi THEN [s |-> 1, m |-> MantLo, e |-> e + 1]
             ELSE [s |-> 1, m |-> m, e |-> e]

\* the single-precision number nearest to the fraction n/d (n >= 0, d > 0)
Fround(n, d) == IF n = 0 THEN Zero ELSE RoundRat(n, d, 0)

\* Math.abs
Abs(x) == [x EXCEPT !.s = 1]

\* a > b on non-negative numbers
Greater(a, b) ==
    IF a.m = 0 THEN FALSE
    ELSE IF b.m = 0 THEN TRUE
    ELSE a.e > b.e \/ (a.e = b.e /\ a.m > b.m)

\* single-precision product, as the gain node computes sample * gain
Mul(x, g) ==
    IF x.m = 0 \/ g.m = 0 THEN Zero
    ELSE LET r == RoundRat(x.m * g.m, 1, x.e + g.e)
         IN  [s |-> x.s * g.s, m |-> r.m, e |-> r.e]

\* the neighbours of a positive number on the single-precision grid
NextUp(x) == IF x.m + 1 = MantHi THEN [s |-> x.s, m |-> MantLo, e |-> x.e + 1]
             ELSE [x EXCEPT !.m = @ + 1]
NextDown(x) == IF x.m = MantLo THEN [s |-> x.s, m |-> MantHi - 1, e |-> x.e - 1]
               ELSE [x EXCEPT !.m = @ - 1]


(***************************************************************************)
(* AudioBuffer: numberOfChannels, length (frames), sampleRate and the      *)
(* channel data.  The data is vals, one sequence of samples per channel,   *)
(* followed by ops, the stages whose arithmetic is the browser's (biquad   *)
(* filters, compressor, wave shaper, panner) in the order they were        *)
(* applied to vals.  A decoded file has no ops.                            *)
(***************************************************************************)
AudioBufferOf(vals, sampleRate) ==
    [numberOfChannels |-> Len(vals), length |-> Len(vals[1]),
     sampleRate |-> sampleRate, data |-> [vals |-> vals, ops |-> <<>>]]

\* faulty variant: a context that is always stereo
OfflineAudioContextStereo(numberOfChannels, length, sampleRate) ==
    [numberOfChannels |-> 2, length |-> length, sampleRate |-> sampleRate]

\* new OfflineAudioContext(numberOfChannels, length, sampleRate)
OfflineAudioContext(numberOfChannels, length, sampleRate) ==
    [numberOfChannels |-> numberOfChannels, length |-> length,
     sampleRate |-> sampleRate]

(***************************************************************************)
(* Audio nodes.  A node is its variable name in the source, its node type  *)
(* and the parameters the source sets.  Q, attack, release are written in  *)
(* thousandths; the gain of a GainNode is a single-precision number.  A    *)
(* biquad parameter the source does not set has the node's default         *)
(* (Q 1, gain 0).                                                          *)
(***************************************************************************)
BiquadFilter(name, type, frequency, Q, gain) ==
    [name |-> name, node |-> "BiquadFilter",
     p |-> [type |-> type, frequency |-> frequency, Q |-> Q, gain |-> gain]]

DynamicsCompressor(name, threshold, knee, ratio, attack, release) ==
    [name |-> name, node |-> "DynamicsCompressor",
     p |-> [threshold |-> threshold, knee |-> knee, ratio |-> ratio,
            attack |-> attack, release |-> release]]

StereoPanner(name, pan) ==
    [name |-> name, node |-> "StereoPanner", p |-> [pan |-> pan]]

Gain(name, gain) ==
    [name |-> name, node |-> "Gain", p |-> [gain |-> gain]]

\* makeDistortionCurve(amount), oversample '4x'
WaveShaper(name, amount) ==
    [name |-> name, node |-> "WaveShaper",
     p |-> [amount |-> amount, oversample |-> "4x"]]

(***************************************************************************)
(* The audio graph an apply function builds: the nodes in creation order   *)
(* and the connect() calls in call order, "source" and "destination"       *)
(* being the buffer source and offlineContext.destination.                 *)
(***************************************************************************)
Connect(from, to) == <<from, to>>

RECURSIVE SeqToSet(_)
SeqToSet(s) == IF s = <<>> THEN {} ELSE {Head(s)} \cup SeqToSet(Tail(s))

NodeNames(graph) == {graph.nodes[i].name : i \in 1..Len(graph.nodes)}
NodeNamed(graph, n) ==
    graph.nodes[CHOOSE i \in 1..Len(graph.nodes) : graph.nodes[i].name = n]
Inputs(graph, n) == {c[1] : c \in {d \in SeqToSet(graph.edges) : d[2] = n}}

Silence(numberOfChannels, length) ==
    [vals |-> [ch \in 1..numberOfChannels |-> [i \in 1..length |-> Zero]],
     ops |-> <<>>]

\* what one node does to the signal at its input
ProcessNode(node, d) ==
    IF node.node = "Gain" /\ d.ops = <<>>
    THEN [d EXCEPT !.vals =
            [ch \in 1..Len(d.vals) |->
                [i \in 1..Len(d.vals[ch]) |-> Mul(d.vals[ch][i], node.p.gain)]]]
    ELSE [d EXCEPT !.ops = Append(@, node)]

\* the signal at the output of node n; depth bounds the walk on a cycle
RECURSIVE Signal(_, _, _, _)
Signal(graph, src, n, depth) ==
    IF n = "source" THEN src.data
    ELSE LET ins == Inputs(graph, n)
             in == IF ins = {} \/ depth = 0
                   THEN Silence(src.numberOfChannels, src.length)
                   ELSE IF Cardinality(ins) = 1
                   THEN Signal(graph, src, CHOOSE x \in ins : TRUE, depth - 1)
                   ELSE [vals |-> <<>>, ops |-> <<[name |-> "mix", node |-> "Sum", p |-> ins]>>]
         IN  IF n = "destination" THEN in ELSE ProcessNode(NodeNamed(graph, n), in)

\* the destination's channels and frames: a channel or frame the signal
\* does not have is silent
Fit(d, numberOfChannels, length) ==
    [d EXCEPT !.vals =
        [ch \in 1..numberOfChannels |->
            [i \in 1..length |->
                IF ch <= Len(d.vals) /\ i <= Len(d.vals[ch])
                THEN d.vals[ch][i] ELSE Zero]]]

\* no buffer, no graph
NoBuffer == [numberOfChannels |-> 0, length |-> 0, sampleRate |-> 0,
             data |-> [vals |-> <<>>, ops |-> <<>>]]
NoGraph == [nodes |-> <<>>, edges |-> <<>>]

\* source.buffer = audioBuffer; source.start(0); offlineContext.startRendering()
startRendering(offlineContext, graph, buf) ==
    [threw |-> FALSE,
     buffer |->
        [numberOfChannels |-> offlineContext.numberOfChannels,
         length |-> offlineContext.length,
         sampleRate |-> offlineContext.sampleRate,
         data |-> Fit(Signal(graph, buf, "destination", Len(graph.nodes) + 1),
                      offlineContext.numberOfChannels, offlineContext.length)],
     graph |-> graph]


(***************************************************************************)
(* The ten preset functions.  Each creates its nodes, connects them and    *)
(* renders; the result is the rendered buffer and the graph it built.      *)
(***************************************************************************)
\* Bass Boost
applyBassBoost(buf) ==
    LET offlineContext == OfflineAudioContext(buf.numberOfChannels, buf.length,
                                                buf.sampleRate)
        bassFilter == BiquadFilter("bassFilter", "lowshelf", 100, 1000, 10)
        midFilter == BiquadFilter("midFilter", "peaking", 1000, 1000, 2)
    IN  startRendering(offlineContext,
            [nodes |-> <<bassFilter, midFilter>>,
             edges |-> <<Connect("source", "bassFilter"),
                         Connect("bassFilter", "midFilter"),
                         Connect("midFilter", "destination")>>],
            buf)

\* Studio Sound
applyStudioSound(buf) ==
    LET offlineContext == OfflineAudioContext(buf.numberOfChannels, buf.length,
                                                buf.sampleRate)
        compressor == DynamicsCompressor("compressor", -24, 30, 3, 3, 250)
        lowFilter == BiquadFilter("lowFilter", "lowshelf", 200, 1000, 3)
        highFilter == BiquadFilter("highFilter", "highshelf", 6000, 1000, 3)
        stereoPanner == StereoPanner("stereoPanner", 0)
    IN  startRendering(offlineContext,
            [nodes |-> <<compressor, lowFilter, highFilter, stereoPanner>>,
             edges |-> <<Connect("source", "lowFilter"),
                         Connect("lowFilter", "highFilter"),
                         Connect("highFilter", "compressor"),
                         Connect("compressor", "stereoPanner"),
                         Connect("stereoPanner", "destination")>>],
            buf)

\* Podcast Voice
applyPodcastVoice(buf) ==
    LET offlineContext == OfflineAudioContext(buf.numberOfChannels, buf.length,
                                                buf.sampleRate)
        highpassFilter == BiquadFilter("highpassFilter", "highpass", 120, 1000, 0)
        presenceFilter == BiquadFilter("presenceFilter", "peaking", 3000, 1000, 5)
        compressor == DynamicsCompressor("compressor", -20, 6, 4, 2, 100)
        gainNode == Gain("gainNode", Fround(15, 10))
    IN  startRendering(offlineContext,
            [nodes |-> <<highpassFilter, presenceFilter, compressor, gainNode>>,
             edges |-> <<Connect("source", "highpassFilter"),
                         Connect("highpassFilter", "presenceFilter"),
                         Connect("presenceFilter", "compressor"),
                         Connect("compressor", "gainNode"),
                         Connect("gainNode", "destination")>>],
            buf)

\* ASMR
applyAsmr(buf) ==
    LET offlineContext == OfflineAudioContext(buf.numberOfChannels, buf.length,
                                                buf.sampleRate)
        highpassFilter == BiquadFilter("highpassFilter", "highpass", 80, 1000, 0)
        detailFilter == BiquadFilter("detailFilter", "peaking", 8000, 1000, 6)
        stereoPanner == StereoPanner("stereoPanner", 0)
        gainNode == Gain("gainNode", Fround(12, 10))
    IN  startRendering(offlineContext,
            [nodes |-> <<highpassFilter, detailFilter, stereoPanner, gainNode>>,
             edges |-> <<Connect("source", "highpassFilter"),
                         Connect("highpassFilter", "detailFilter"),
                         Connect("detailFilter", "stereoPanner"),
                         Connect("stereoPanner", "gainNode"),
                         Connect("gainNode", "destination")>>],
            buf)

\* Noise Reduction
applyNoiseReduction(buf) ==
    LET offlineContext == OfflineAudioContext(buf.numberOfChannels, buf.length,
                                                buf.sampleRate)
        highpassFilter == BiquadFilter("highpassFilter", "highpass", 150, 700, 0)
        lowpassFilter == BiquadFilter("lowpassFilter", "lowpass", 7500, 1000, 0)
        bandpassFilter == BiquadFilter("bandpassFilter", "bandpass", 1000, 500, 0)
        compressor == DynamicsCompressor("compressor", -30, 10, 3, 20, 300)
    IN  startRendering(offlineContext,
            [nodes |-> <<highpassFilter, lowpassFilter, bandpassFilter, compressor>>,
             edges |-> <<Connect("source", "highpassFilter"),
                         Connect("highpassFilter", "lowpassFilter"),
                         Connect("lowpassFilter", "bandpassFilter"),
                         Connect("bandpassFilter", "compressor"),
                         Connect("compressor", "destination")>>],
            buf)

\* Deep Radio Voice
applyRadioVoice(buf) ==
    LET offlineContext == OfflineAudioContext(buf.numberOfChannels, buf.length,
                                                buf.sampleRate)
        bandpassFilter == BiquadFilter("bandpassFilter", "bandpass", 1800, 800, 0)
        distortion == WaveShaper("distortion", 20)
        compressor == DynamicsCompressor("compressor", -18, 5, 12, 2, 250)
        gainNode == Gain("gainNode", Fround(12, 10))
    IN  startRendering(offlineContext,
            [nodes |-> <<bandpassFilter, distortion, compressor, gainNode>>,
             edges |-> <<Connect("source", "bandpassFilter"),
                         Connect("bandpassFilter", "distortion"),
                         Connect("distortion", "compressor"),
                         Connect("compressor", "gainNode"),
                         Connect("gainNode", "destination")>>],
            buf)

\* Vintage Vinyl
applyVinylEffect(buf) ==
    LET offlineContext == OfflineAudioContext(buf.numberOfChannels, buf.length,
                                                buf.sampleRate)
        lowpassFilter == BiquadFilter("lowpassFilter", "lowpass", 5000, 1000, 0)
        highpassFilter == BiquadFilter("highpassFilter", "highpass", 40, 1000, 0)
        peakingFilter == BiquadFilter("peakingFilter", "peaking", 3000, 1500, -2)
        distortion == WaveShaper("distortion", 2)
    IN  startRendering(offlineContext,
            [nodes |-> <<lowpassFilter, highpassFilter, peakingFilter, distortion>>,
             edges |-> <<Connect("source", "highpassFilter"),
                         Connect("highpassFilter", "lowpassFilter"),
                         Connect("lowpassFilter", "peakingFilter"),
                         Connect("peakingFilter", "distortion"),
                         Connect("distortion", "destination")>>],
            buf)

\* Phone Call
applyPhoneCall(buf) ==
    LET offlineContext == OfflineAudioContext(buf.numberOfChannels, buf.length,
                                                buf.sampleRate)
        bandpassFilter == BiquadFilter("bandpassFilter", "bandpass", 1700, 500, 0)
        lowpassFilter == BiquadFilter("lowpassFilter", "lowpass", 3400, 1000, 0)
        highpassFilter == BiquadFilter("highpassFilter", "highpass", 300, 1000, 0)
        compressor == DynamicsCompressor("compressor", -15, 5, 5, 50, 100)
        gainNode == Gain("gainNode", Fround(13, 10))
    IN  startRendering(offlineContext,
            [nodes |-> <<bandpassFilter, lowpassFilter, highpassFilter, compressor, gainNode>>,
             edges |-> <<Connect("source", "bandpassFilter"),
                         Connect("bandpassFilter", "lowpassFilter"),
                         Connect("lowpassFilter", "highpassFilter"),
                         Connect("highpassFilter", "compressor"),
                         Connect("compressor", "gainNode"),
                         Connect("gainNode", "destination")>>],
            buf)

(***************************************************************************)
(* Normalize: the peak scan of applyNormalize, channel by channel and      *)
(* frame by frame, then one gain node with gain targetPeak / peak.         *)
(***************************************************************************)
\* targetPeak = 0.7079 = TargetPeakNum / TargetPeakDen
TargetPeakNum == 7079
TargetPeakDen == 10000

\* for (i...) { amplitude = Math.abs(data[i]); if (amplitude > peak) peak = amplitude }
RECURSIVE ScanChannel(_, _, _)
ScanChannel(data, i, peak) ==
    IF i > Len(data) THEN peak
    ELSE LET amplitude == Abs(data[i])
         IN  ScanChannel(data, i + 1, IF Greater(amplitude, peak) THEN amplitude ELSE peak)

\* faulty variant: only the first channel is scanned
RECURSIVE ScanFirstChannelOnly(_, _, _)
ScanFirstChannelOnly(buf, channel, peak) ==
    IF channel > 1 THEN peak
    ELSE ScanFirstChannelOnly(buf, channel + 1,
                              ScanChannel(buf.data.vals[channel], 1, peak))

\* for (channel...) { data = audioBuffer.getChannelData(channel); ... }
RECURSIVE ScanChannels(_, _, _)
ScanChannels(buf, channel, peak) ==
    IF channel > buf.numberOfChannels THEN peak
    ELSE ScanChannels(buf, channel + 1,
                      ScanChannel(buf.data.vals[channel], 1, peak))

FindPeak(buf) == ScanChannels(buf, 1, Zero)

\* faulty variant: the division is not guarded, and 0.7079 / 0 is Infinity
GainFactorUnguarded(peak) ==
    IF peak.m = 0 THEN Infinity
    ELSE RoundRat(TargetPeakNum, TargetPeakDen * peak.m, 0 - peak.e)

\* gainFactor = peak > 0 ? targetPeak / peak : 1, as stored in gain.value
GainFactor(peak) ==
    IF Greater(peak, Zero)
    THEN RoundRat(TargetPeakNum, TargetPeakDen * peak.m, 0 - peak.e)
    ELSE Fround(1, 1)

\* Normalize; assigning a non-finite gain.value throws a TypeError
applyNormalize(buf) ==
    LET offlineContext == OfflineAudioContext(buf.numberOfChannels, buf.length,
                                                buf.sampleRate)
        peak == FindPeak(buf)
        gainFactor == GainFactor(peak)
        gainNode == Gain("gainNode", gainFactor)
    IN  IF gainFactor = Infinity
        THEN [threw |-> TRUE, buffer |-> NoBuffer, graph |-> NoGraph]
        ELSE startRendering(offlineContext,
                [nodes |-> <<gainNode>>,
                 edges |-> <<Connect("source", "gainNode"),
                             Connect("gainNode", "destination")>>],
                buf)

\* Compression
applyCompression(buf) ==
    LET offlineContext == OfflineAudioContext(buf.numberOfChannels, buf.length,
                                                buf.sampleRate)
        compressor == DynamicsCompressor("compressor", -24, 12, 4, 5, 100)
        gainNode == Gain("gainNode", Fround(15, 10))
    IN  startRendering(offlineContext,
            [nodes |-> <<compressor, gainNode>>,
             edges |-> <<Connect("source", "compressor"),
                         Connect("compressor", "gainNode"),
                         Connect("gainNode", "destination")>>],
            buf)

(***************************************************************************)
(* The preset table and the manual chain.                                  *)
(***************************************************************************)
\* the own keys of the presets object
PresetKeys ==
    {"bass-boost", "studio-sound", "podcast-voice", "asmr", "noise-reduction",
     "radio-voice", "vinyl-effect", "phone-call", "normalize", "compression"}

\* presets[key](audioBuffer) for an own key
PresetFunction(key, buf) ==
    CASE key = "bass-boost" -> applyBassBoost(buf)
      [] key = "studio-sound" -> applyStudioSound(buf)
      [] key = "podcast-voice" -> applyPodcastVoice(buf)
      [] key = "asmr" -> applyAsmr(buf)
      [] key = "noise-reduction" -> applyNoiseReduction(buf)
      [] key = "radio-voice" -> applyRadioVoice(buf)
      [] key = "vinyl-effect" -> applyVinylEffect(buf)
      [] key = "phone-call" -> applyPhoneCall(buf)
      [] key = "normalize" -> applyNormalize(buf)
      [] key = "compression" -> applyCompression(buf)

\* the ids of the buttons of PresetsPanel
PanelPresetIds ==
    {"bass-boost", "studio-sound", "podcast-voice", "asmr", "noise-reduction",
     "radio-voice", "vinyl-effect", "phone-call", "normalize", "compression"}

\* faulty variant: the node is connected but lastNode is not advanced
AddNodeKeepLast(chain, node) ==
    [nodes |-> Append(chain.nodes, node),
     edges |-> Append(chain.edges, Connect(chain.lastNode, node.name)),
     lastNode |-> chain.lastNode]

\* lastNode.connect(node); lastNode = node
AddNode(chain, node) ==
    [nodes |-> Append(chain.nodes, node),
     edges |-> Append(chain.edges, Connect(chain.lastNode, node.name)),
     lastNode |-> node.name]

AbsInt(n) == IF n < 0 THEN 0 - n ELSE n

\* faulty variant: a bass cut (negative gain) is taken for neutral
ApplyBassPositiveOnly(chain, params) ==
    IF IsDefined(params.bass) /\ Val(params.bass) > 0
    THEN [nodes |-> Append(chain.nodes,
                       BiquadFilter("bassFilter", "lowshelf", 100, 1000, Val(params.bass))),
          edges |-> Append(chain.edges, Connect(chain.lastNode, "bassFilter")),
          lastNode |-> "bassFilter"]
    ELSE chain

\* Apply bass
ApplyBass(chain, params) ==
    IF IsDefined(params.bass) /\ Val(params.bass) # 0
    THEN AddNode(chain, BiquadFilter("bassFilter", "lowshelf", 100, 1000,
                                     Val(params.bass)))
    ELSE chain

\* Apply treble
ApplyTreble(chain, params) ==
    IF IsDefined(params.treble) /\ Val(params.treble) # 0
    THEN AddNode(chain, BiquadFilter("trebleFilter", "highshelf", 3000, 1000,
                                     Val(params.treble)))
    ELSE chain

\* Apply high pass
ApplyHighpass(chain, params) ==
    IF IsDefined(params.highpass) /\ Val(params.highpass) > 0
    THEN AddNode(chain, BiquadFilter("highpassFilter", "highpass",
                                     Val(params.highpass), 1000, 0))
    ELSE chain

\* Apply low pass
ApplyLowpass(chain, params) ==
    IF IsDefined(params.lowpass) /\ Val(params.lowpass) > 0
    THEN AddNode(chain, BiquadFilter("lowpassFilter", "lowpass",
                                     Val(params.lowpass), 1000, 0))
    ELSE chain

\* Apply compression
ApplyCompressionParam(chain, params) ==
    IF IsDefined(params.compression) /\ Val(params.compression) # 0
    THEN AddNode(chain, DynamicsCompressor("compressor", -24, 30,
                            3 + AbsInt(Val(params.compression)), 3, 250))
    ELSE chain

\* Apply normalization (simulated with gain)
ApplyNormalizeParam(chain, params) ==
    IF IsDefined(params.normalize) /\ Val(params.normalize) > 0
    THEN AddNode(chain, Gain("gainNode", Fround(10 + Val(params.normalize), 10)))
    ELSE chain

\* faulty variant: only a chain with stages is connected to the destination
ConnectFinalUnlessEmpty(chain) ==
    [nodes |-> chain.nodes,
     edges |-> IF chain.nodes = <<>> THEN chain.edges
               ELSE Append(chain.edges, Connect(chain.lastNode, "destination"))]

\* Connect final node to destination
ConnectFinal(chain) ==
    [nodes |-> chain.nodes,
     edges |-> Append(chain.edges, Connect(chain.lastNode, "destination"))]

previewManualProcessing(buf, params) ==
    LET offlineContext == OfflineAudioContext(buf.numberOfChannels, buf.length,
                                                buf.sampleRate)
        source == [nodes |-> <<>>, edges |-> <<>>, lastNode |-> "source"]
        chain ==
            ApplyNormalizeParam(
              ApplyCompressionParam(
                ApplyLowpass(
                  ApplyHighpass(
                    ApplyTreble(
                      ApplyBass(source, params), params), params), params), params), params)
    IN  startRendering(offlineContext, ConnectFinal(chain), buf)

(***************************************************************************)
(* processAudio.  The outcome of the promise: resolved with a value or     *)
(* rejected.  A resolved value is a rendered AudioBuffer (fresh), the      *)
(* input object itself, or a value that is no AudioBuffer at all.          *)
(***************************************************************************)
Rendered(r, via) ==
    [kind |-> "resolved", type |-> "AudioBuffer", fresh |-> TRUE,
     buffer |-> r.buffer, graph |-> r.graph, via |-> via]
Rejected(via) ==
    [kind |-> "rejected", type |-> "Error", fresh |-> FALSE,
     buffer |-> NoBuffer, graph |-> NoGraph, via |-> via]
NotABuffer(type, via) ==
    [kind |-> "resolved", type |-> type, fresh |-> FALSE,
     buffer |-> NoBuffer, graph |-> NoGraph, via |-> via]
TheInput(buf, via) ==
    [kind |-> "resolved", type |-> "AudioBuffer", fresh |-> FALSE,
     buffer |-> buf, graph |-> NoGraph, via |-> via]

\* property names every object literal inherits from Object.prototype
ObjectPrototypeKeys ==
    {"constructor", "toString", "valueOf", "hasOwnProperty", "__proto__"}

\* key in presets
InPresets(key) == key \in PresetKeys \cup ObjectPrototypeKeys

\* presets[key](audioBuffer): an own key is its apply function; an inherited
\* key is the Object.prototype member of that name, called on presets
CallPreset(key, buf) ==
    IF key \in PresetKeys
    THEN LET r == PresetFunction(key, buf)
         IN  IF r.threw THEN Rejected("preset") ELSE Rendered(r, "preset")
    ELSE CASE key = "constructor" -> TheInput(buf, "preset")
           [] key = "toString" -> NotABuffer("string", "preset")
           [] key = "valueOf" -> NotABuffer("object", "preset")
           [] key = "hasOwnProperty" -> NotABuffer("boolean", "preset")
           [] key = "__proto__" -> Rejected("preset")

\* faulty variant: without a preset or parameters the input is handed back
processAudioPassThrough(buf, preset, manual) ==
    IF IsDefined(preset) /\ Val(preset) # "" /\ InPresets(Val(preset))
    THEN CallPreset(Val(preset), buf)
    ELSE IF IsDefined(manual)
    THEN Rendered(previewManualProcessing(buf, Val(manual)), "manual")
    ELSE TheInput(buf, "none")

processAudio(buf, preset, manual) ==
    IF IsDefined(preset) /\ Val(preset) # "" /\ InPresets(Val(preset))
    THEN CallPreset(Val(preset), buf)
    ELSE IF IsDefined(manual)
    THEN Rendered(previewManualProcessing(buf, Val(manual)), "manual")
    ELSE Rejected("none")

(***************************************************************************)
(* audioBufferToWav: the 44-byte header and the 16-bit samples, as the     *)
(* sequence of bytes of the ArrayBuffer.  A sample here is sign * m * 2^e  *)
(* with its full single-precision significand; the products with 0x8000    *)
(* and 0x7FFF are exact in double precision.                               *)
(***************************************************************************)
\* DataView.setUint8 of each char code
writeString(string) ==
    CASE string = "RIFF" -> <<82, 73, 70, 70>>
      [] string = "WAVE" -> <<87, 65, 86, 69>>
      [] string = "fmt " -> <<102, 109, 116, 32>>
      [] string = "data" -> <<100, 97, 116, 97>>

\* DataView.setUint32(_, n, true)
setUint32(n) ==
    <<n % 256, (n \div 256) % 256, (n \div 65536) % 256, (n \div 16777216) % 256>>

\* DataView.setUint16(_, n, true)
setUint16(n) == <<n % 256, (n \div 256) % 256>>

\* DataView.setInt16(_, n, true): n is already truncated; ToInt16 keeps it
\* modulo 2^16
setInt16(n) == <<(n % 65536) % 256, (n % 65536) \div 256>>

\* x > 1 in magnitude
ExceedsOne(x) ==
    /\ x.m # 0
    /\ IF x.e >= 0 THEN x.m * Pow2(x.e) > 1 ELSE x.m > Pow2(0 - x.e)

\* faulty variant: the sample is scaled as it is
NoClip(x) == x

\* Math.max(-1, Math.min(1, sample))
ClipSample(x) == IF ExceedsOne(x) THEN [s |-> x.s, m |-> 1, e |-> 0] ELSE x

\* sample < 0 ? sample * 0x8000 : sample * 0x7FFF, and the truncation
\* towards zero with which setInt16 converts the product to an integer
ScaleSample(x) ==
    LET scale == IF x.s < 0 /\ x.m # 0 THEN 32768 ELSE 32767
    IN  x.s * (IF x.e >= 0 THEN x.m * Pow2(x.e) * scale
               ELSE (x.m * scale) \div Pow2(0 - x.e))

\* the bytes of one sample
WriteSample(x) == setInt16(ScaleSample(ClipSample(x)))

\* faulty variant: one channel after the other
RECURSIVE WriteSamplesPlanar(_, _, _, _)
WriteSamplesPlanar(buf, i, ch, written) ==
    IF ch >= buf.numberOfChannels THEN written
    ELSE IF i >= buf.length THEN WriteSamplesPlanar(buf, 0, ch + 1, written)
    ELSE WriteSamplesPlanar(buf, i + 1, ch,
                            written \o WriteSample(buf.data.vals[ch + 1][i + 1]))

\* Write the PCM samples: for each frame i, for each channel ch
RECURSIVE WriteSamples(_, _, _, _)
WriteSamples(buf, i, ch, written) ==
    IF i >= buf.length THEN written
    ELSE IF ch >= buf.numberOfChannels THEN WriteSamples(buf, i + 1, 0, written)
    ELSE WriteSamples(buf, i, ch + 1,
                      written \o WriteSample(buf.data.vals[ch + 1][i + 1]))

\* the header fields in the order the source writes them
WavHeader(buf) ==
    LET length == buf.length * buf.numberOfChannels * 2
    IN  writeString("RIFF") \o setUint32(36 + length) \o writeString("WAVE")
        \o writeString("fmt ") \o setUint32(16) \o setUint16(1)
        \o setUint16(buf.numberOfChannels) \o setUint32(buf.sampleRate)
        \o setUint32(buf.sampleRate * 4) \o setUint16(buf.numberOfChannels * 2)
        \o setUint16(16) \o writeString("data") \o setUint32(length)

audioBufferToWav(buf) == WriteSamples(buf, 0, 0, WavHeader(buf))

\* the three copies of audioBufferToWav: utils/audioProcessing, pages/Index
\* and utils/videoExport
WavEncoders == {"audioProcessing", "Index", "videoExport"}

NoWav == [by |-> "none", bytes |-> <<>>, via |-> "none", settled |-> "none",
          encoding |-> "none", toast |-> "none"]

\* exportAudio: encoding is whether audioBufferToWav and the making of the
\* download link go through or throw, fallback the same of
\* exportAudioWithMediaRecorder; via is the path that made the file, whose
\* bytes are known when it is the encoder
exportAudio(buf, encoding, fallback) ==
    IF encoding = "ok"
    THEN [settled |-> "resolved", via |-> "audioBufferToWav",
          bytes |-> audioBufferToWav(buf)]
    ELSE IF fallback = "ok"
         THEN [settled |-> "resolved", via |-> "MediaRecorder", bytes |-> <<>>]
         ELSE [settled |-> "rejected", via |-> "none", bytes |-> <<>>]

\* the toast of handleDownload after its await of exportAudio
DownloadToast(settled) ==
    IF settled = "resolved" THEN "Export successful" ELSE "Export failed"

(***************************************************************************)
(* State.                                                                  *)
(*   input, argPreset, argManual, outcome: one caller of processAudio, the *)
(*   buffer it holds, the arguments of its last call and what the promise  *)
(*   settled to.                                                           *)
(*   The page (Index): heap holds the AudioBuffer objects by reference     *)
(*   (a reference is an index of heap); audioBuffer, processedAudioBuffer, *)
(*   activePreset, manualParams, isProcessing, isSaving, isPlaying,        *)
(*   currentTime, activeTab, originalFile are its React state; user is the *)
(*   signed-in user; calls are the processAudio calls awaited by its       *)
(*   handlers; sliders and livePreview are the state of ManualControls;    *)
(*   lastExport is what the last download handed to the exporter; loaded   *)
(*   remembers the decoded buffer as it was when handleAudioLoad got it.   *)
(*   wav: the bytes the last call of audioBufferToWav returned, and which  *)
(*   copy of it was called; for a download, how exportAudio settled, the   *)
(*   path that made the file and the toast handleDownload showed.          *)
(***************************************************************************)
VARIABLES input, argPreset, argManual, outcome,
          heap, audioBuffer, processedAudioBuffer, activePreset, manualParams,
          isProcessing, isSaving, isPlaying, currentTime, activeTab,
          originalFile, user, calls, sliders, livePreview, lastExport, loaded,
          wav, player, volumes

callVars == <<input, argPreset, argManual, outcome>>
pageVars == <<heap, audioBuffer, processedAudioBuffer, activePreset, manualParams,
              isProcessing, isSaving, isPlaying, currentTime, activeTab,
              originalFile, user, calls, sliders, livePreview, lastExport, loaded>>
wavVars == <<wav>>
playerVars == <<player>>
volumeVars == <<volumes>>
vars == <<callVars, pageVars, wavVars, playerVars, volumeVars>>

NotCalled ==
    [kind |-> "none", type |-> "none", fresh |-> FALSE,
     buffer |-> NoBuffer, graph |-> NoGraph, via |-> "none"]

ZeroParams ==
    [bass |-> Some(0), treble |-> Some(0), compression |-> Some(0),
     normalize |-> Some(0), lowpass |-> Some(0), highpass |-> Some(0)]

\* the AudioPlayer component before it is given a buffer: its useState and
\* useRef initial values, the AudioContext of the mount effect (created
\* outside a user gesture, hence suspended until resume() settles), no source
\* node, no play() waiting for resume()
PlayerNotMounted ==
    [buffer |-> Undefined, isPlaying |-> FALSE, duration |-> 0,
     sliderValue |-> 0, currentTime |-> 0, userIsDragging |-> FALSE,
     contextState |-> "suspended", sources |-> <<>>, sourceNodeRef |-> 0,
     sinceStart |-> 0, playbackOffsetRef |-> 0, resuming |-> <<>>,
     last |-> [op |-> "none", arg |-> 0, cause |-> "none"], passed |-> {}]

\* gain values are hundredths: the gain AudioPlayer gives its gain node and
\* the volume SimpleAudioPlayer starts with, 0.8
DefaultGain == 80

\* the gain nodes of the two players before any control is used: of
\* AudioPlayer isMuted, gain.value and previousVolumeRef, of
\* SimpleAudioPlayer volume, isMuted and gain.value, after their first
\* effects; before is the gain that was in effect when a player was muted
VolumesNotMounted ==
    [AudioPlayer |-> [isMuted |-> FALSE, gain |-> DefaultGain,
                      previousVolumeRef |-> DefaultGain],
     SimpleAudioPlayer |-> [volume |-> DefaultGain, isMuted |-> FALSE,
                            gain |-> DefaultGain],
     before |-> [AudioPlayer |-> Undefined, SimpleAudioPlayer |-> Undefined],
     last |-> [of |-> "none", op |-> "none", before |-> Undefined]]

\* the page before it is mounted
PageNotMounted ==
    /\ heap = <<>>
    /\ audioBuffer = Undefined
    /\ processedAudioBuffer = Undefined
    /\ activePreset = Undefined
    /\ manualParams = Undefined
    /\ isProcessing = FALSE
    /\ isSaving = FALSE
    /\ isPlaying = FALSE
    /\ currentTime = 0
    /\ activeTab = "presets"
    /\ originalFile = Undefined
    /\ user = FALSE
    /\ calls = <<>>
    /\ sliders = ZeroParams
    /\ livePreview = TRUE
    /\ lastExport = Undefined
    /\ loaded = Undefined

(***************************************************************************)
(* Inputs.                                                                 *)
(***************************************************************************)
Half == [s |-> 1, m |-> MantLo, e |-> 0 - MantBits]
One == [s |-> 1, m |-> MantLo, e |-> 1 - MantBits]

SampleRates == {44100, 48000}

\* one buffer of each shape: frame i of channel ch is -(ch + i)/8 or +1/2
ShapeBuffers ==
    {AudioBufferOf([ch \in 1..nch |-> [i \in 1..len |->
                        IF (ch + i) % 2 = 0
                        THEN [s |-> -1, m |-> MantLo + ch + i, e |-> 0 - MantBits - 1]
                        ELSE Half]],
                   IF nch = 1 THEN 44100 ELSE 48000)
        : nch \in 1..MaxChannels, len \in 1..MaxFrames}

\* the preset argument: absent, empty, the ten ids, inherited names, unknown
PresetArgs ==
    {Undefined, Some("")} \cup {Some(k) : k \in PresetKeys}
    \cup {Some(k) : k \in ObjectPrototypeKeys} \cup {Some("echo")}

\* manual parameter sets within the slider ranges of ManualControls, every
\* field present, and parameter sets with absent fields
ManualParamSets ==
    [bass : {Some(0), Some(-15), Some(10)}, treble : {Some(0), Some(-3)},
     compression : {Some(0), Some(5)}, normalize : {Some(0), Some(10)},
     lowpass : {Some(0), Some(8000)}, highpass : {Some(0), Some(200)}]
    \cup
    [bass : {Undefined, Some(4)}, treble : {Undefined, Some(15)},
     compression : {Undefined, Some(10)}, normalize : {Undefined, Some(1)},
     lowpass : {Undefined, Some(20000)}, highpass : {Undefined, Some(100)}]

ManualArgs == {Undefined} \cup {Some(m) : m \in ManualParamSets}

(***************************************************************************)
(* SpecRender: a caller that holds one buffer and calls processAudio with  *)
(* any arguments, one call at a time.                                      *)
(***************************************************************************)
InitRender ==
    /\ input \in ShapeBuffers
    /\ argPreset = Undefined
    /\ argManual = Undefined
    /\ outcome = NotCalled
    /\ PageNotMounted
    /\ wav = NoWav
    /\ player = PlayerNotMounted
    /\ volumes = VolumesNotMounted

ProcessAudioCall ==
    \E preset \in PresetArgs, manual \in ManualArgs :
        /\ outcome = NotCalled
        /\ argPreset' = preset
        /\ argManual' = manual
        /\ outcome' = processAudio(input, preset, manual)
        /\ UNCHANGED <<input, pageVars, wavVars, playerVars, volumeVars>>

\* the caller drops the settled promise and is ready for its next call
Forget ==
    /\ outcome # NotCalled
    /\ argPreset' = Undefined
    /\ argManual' = Undefined
    /\ outcome' = NotCalled
    /\ UNCHANGED <<input, pageVars, wavVars, playerVars, volumeVars>>

NextRender == ProcessAudioCall \/ Forget

SpecRender == InitRender /\ [][NextRender]_vars

(***************************************************************************)
(* Properties of processAudio, checked under SpecRender.                   *)
(***************************************************************************)
Called == outcome # NotCalled
PresetGiven == IsDefined(argPreset) /\ Val(argPreset) # ""
ManualGiven == IsDefined(argManual)

\* C1: a call that is given neither a preset nor a manual parameter set
\* fails with an error and returns no buffer.
C1_NeitherIsRejected ==
    (Called /\ ~IsDefined(argPreset) /\ ~ManualGiven)
        => (outcome.kind = "rejected" /\ outcome.type = "Error"
            /\ outcome.buffer = NoBuffer)

C1_Witness ==
    Called /\ ~IsDefined(argPreset) /\ ~ManualGiven /\ outcome.kind = "rejected"

\* C2: a call that is given both a preset and a manual parameter set fails;
\* it never renders one of the two and ignores the other.
C2_BothIsRejected ==
    (Called /\ PresetGiven /\ ManualGiven) => outcome.kind = "rejected"

\* C3: the call dispatches to a preset chain exactly when the preset string
\* is one of the ten preset identifiers, every identifier PresetsPanel offers
\* is one of them, and no other string is treated as a preset.
C3_DispatchExactlyTenIds ==
    LET ten == {"bass-boost", "studio-sound", "podcast-voice", "asmr",
                "noise-reduction", "radio-voice", "vinyl-effect", "phone-call",
                "normalize", "compression"}
    IN  /\ PanelPresetIds \subseteq ten
        /\ Called => ((outcome.via = "preset")
                        <=> (IsDefined(argPreset) /\ Val(argPreset) \in ten))

\* C5: the rendered buffer has the channel count, the frame count and the
\* sample rate of the input buffer, for every preset and manual parameter set.
C5_SameShape ==
    (outcome.kind = "resolved" /\ outcome.type = "AudioBuffer")
        => /\ outcome.buffer.numberOfChannels = input.numberOfChannels
           /\ outcome.buffer.length = input.length
           /\ outcome.buffer.sampleRate = input.sampleRate
           /\ Len(outcome.buffer.data.vals) = input.numberOfChannels
           /\ \A ch \in 1..input.numberOfChannels :
                 Len(outcome.buffer.data.vals[ch]) = input.length

C5_Witness ==
    /\ outcome.fresh /\ outcome.via = "preset"
    /\ input.numberOfChannels = 1 /\ input.length = 2
    /\ outcome.buffer.numberOfChannels = 1 /\ outcome.buffer.length = 2

\* C6: the manual chain has a stage for a parameter exactly when the
\* parameter is present and not 0; the number of stages is the number of
\* such parameters; with none the source is wired straight to the destination.
NonNeutral(x) == IsDefined(x) /\ Val(x) # 0

StageOfParam ==
    [bass |-> "bassFilter", treble |-> "trebleFilter", compression |-> "compressor",
     normalize |-> "gainNode", lowpass |-> "lowpassFilter", highpass |-> "highpassFilter"]

HasSound(buffer) ==
    \E ch \in 1..buffer.numberOfChannels, i \in 1..buffer.length :
        buffer.data.vals[ch][i] # Zero

C7_IdentityChain ==
    (outcome.fresh /\ outcome.graph.nodes = <<>>)
        => /\ outcome.buffer.data.vals = input.data.vals
           /\ outcome.buffer.data.ops = <<>>

C7_Witness ==
    /\ outcome.fresh /\ outcome.via = "manual" /\ outcome.graph.nodes = <<>>
    /\ HasSound(input) /\ outcome.buffer.data = input.data

\* C8: the stages form one linear path from the source to the destination
\* in which every created stage appears exactly once, and the manual chain
\* is ordered bass, treble, high-pass, low-pass, compressor, gain.
Successors(graph, n) == {c[2] : c \in {d \in SeqToSet(graph.edges) : d[1] = n}}

\* the nodes met walking the connections from n on, as far as the walk is
\* unambiguous
RECURSIVE Walk(_, _, _)
Walk(graph, n, fuel) ==
    IF fuel = 0 \/ Cardinality(Successors(graph, n)) # 1 THEN <<>>
    ELSE LET next == CHOOSE x \in Successors(graph, n) : TRUE
         IN  <<next>> \o Walk(graph, next, fuel - 1)

PathFromSource(graph) == Walk(graph, "source", Len(graph.nodes) + 1)

IsLinearChain(graph) ==
    LET path == PathFromSource(graph)
        n == Len(graph.nodes)
    IN  /\ Len(path) = n + 1
        /\ path[n + 1] = "destination"
        /\ {path[i] : i \in 1..n} = NodeNames(graph)
        /\ Cardinality(NodeNames(graph)) = n
        /\ Len(graph.edges) = n + 1

ManualOrder ==
    <<"bassFilter", "trebleFilter", "highpassFilter", "lowpassFilter",
      "compressor", "gainNode">>

PositionIn(seq, x) == CHOOSE i \in 1..Len(seq) : seq[i] = x

C8_LinearFixedOrder ==
    outcome.fresh =>
        LET graph == outcome.graph
            path == PathFromSource(graph)
        IN  /\ IsLinearChain(graph)
            /\ outcome.via = "manual" =>
                  \A i, j \in 1..Len(graph.nodes) :
                      i < j => PositionIn(ManualOrder, path[i])
                                 < PositionIn(ManualOrder, path[j])

C8_Witness ==
    /\ outcome.fresh /\ outcome.via = "manual"
    /\ PathFromSource(outcome.graph)
         = <<"bassFilter", "highpassFilter", "lowpassFilter", "gainNode", "destination">>

(***************************************************************************)
(* SpecNormalize: a caller that holds any buffer and normalizes it.  The   *)
(* buffers are the one-sample buffers of every significand in [1/4, 1],    *)
(* and the buffers of every shape over silence, +1/2 and a negative        *)
(* sample just below full scale.                                           *)
(***************************************************************************)
FineValues ==
    {Zero, One} \cup
    {[s |-> sg, m |-> mm, e |-> ee] :
        sg \in {1, -1}, mm \in MantLo..(MantHi - 1),
        ee \in {0 - MantBits, 0 - MantBits - 1}}

CoarseValues == {Zero, Half, [s |-> -1, m |-> MantHi - 1, e |-> 0 - MantBits]}

Quiet == [s |-> -1, m |-> MantLo + 1, e |-> 0 - MantBits - 2]

\* a buffer that holds v at one frame of one channel and rest elsewhere
PeakAt(nch, len, pch, pi, v, rest) ==
    AudioBufferOf([ch \in 1..nch |-> [i \in 1..len |->
                      IF ch = pch /\ i = pi THEN v ELSE rest]], 48000)

\* every single-sample buffer, and for every shape every place of the
\* loudest sample
NormalizeInputs ==
    {AudioBufferOf(<<<<v>>>>, 44100) : v \in FineValues}
    \cup
    UNION {{PeakAt(nch, len, pch, pi, v, rest) :
                pch \in 1..nch, pi \in 1..len,
                v \in CoarseValues, rest \in {Zero, Quiet}}
            : nch \in 1..MaxChannels, len \in 1..MaxFrames}

InitNormalize ==
    /\ input \in NormalizeInputs
    /\ argPreset = Undefined
    /\ argManual = Undefined
    /\ outcome = NotCalled
    /\ PageNotMounted
    /\ wav = NoWav
    /\ player = PlayerNotMounted
    /\ volumes = VolumesNotMounted

NormalizeCall ==
    /\ outcome = NotCalled
    /\ argPreset' = Some("normalize")
    /\ argManual' = Undefined
    /\ outcome' = processAudio(input, Some("normalize"), Undefined)
    /\ UNCHANGED <<input, pageVars, wavVars, playerVars, volumeVars>>

NextNormalize == NormalizeCall \/ Forget

SpecNormalize == InitNormalize /\ [][NextNormalize]_vars

(***************************************************************************)
(* Properties of applyNormalize, checked under SpecNormalize.              *)
(***************************************************************************)
AbsSamples(buffer) ==
    {Abs(buffer.data.vals[ch][i]) :
        ch \in 1..buffer.numberOfChannels, i \in 1..buffer.length}

\* the largest absolute sample value of a buffer
MaxAbs(buffer) ==
    CHOOSE v \in AbsSamples(buffer) : \A w \in AbsSamples(buffer) : ~Greater(w, v)

\* the target peak as a single-precision number
TargetPeak == Fround(TargetPeakNum, TargetPeakDen)

Normalized == outcome.fresh /\ argPreset = Some("normalize")

TheGain == outcome.graph.nodes[1].p.gain

UniformGain ==
    /\ Len(outcome.graph.nodes) = 1
    /\ outcome.graph.nodes[1].node = "Gain"
    /\ outcome.buffer.data.ops = <<>>
    /\ \A ch \in 1..input.numberOfChannels, i \in 1..input.length :
          outcome.buffer.data.vals[ch][i] = Mul(input.data.vals[ch][i], TheGain)

\* C9 as claimed: the peak is the maximum absolute sample over every frame
\* of every channel, one gain is applied to all channels, and for any buffer
\* with a non-zero peak the peak of the output equals the target exactly.
C9_PeakEqualsTargetExactly ==
    Normalized =>
        /\ FindPeak(input) = MaxAbs(input)
        /\ UniformGain
        /\ Greater(MaxAbs(input), Zero) => MaxAbs(outcome.buffer) = TargetPeak

\* C9 as amended: the same scan and the same uniform gain; the peak of the
\* output is the target or one of its two neighbours in single precision,
\* and it is the target exactly when the input peak is a power of two
\* (such as 0.5).
C9_PeakWithinOneUlp ==
    Normalized =>
        /\ FindPeak(input) = MaxAbs(input)
        /\ UniformGain
        /\ Greater(MaxAbs(input), Zero) =>
              /\ MaxAbs(outcome.buffer)
                    \in {NextDown(TargetPeak), TargetPeak, NextUp(TargetPeak)}
              /\ MaxAbs(input).m = MantLo => MaxAbs(outcome.buffer) = TargetPeak

C9_Witness ==
    /\ Normalized
    /\ input.numberOfChannels = 2 /\ input.length = 2
    /\ MaxAbs(input) = Half
    /\ Abs(input.data.vals[2][2]) = Half
    /\ input.data.vals[1][1] = Zero /\ input.data.vals[1][2] = Zero
    /\ input.data.vals[2][1] = Zero
    /\ MaxAbs(outcome.buffer) = TargetPeak

\* C10: normalize on an all-zero buffer uses gain factor 1, raises no error,
\* and its output equals its input.
C10_SilenceIsNoOp ==
    (Called /\ argPreset = Some("normalize") /\ ~HasSound(input))
        => /\ outcome.kind = "resolved"
           /\ outcome.fresh
           /\ TheGain = One
           /\ outcome.buffer.data = input.data

C10_Witness ==
    /\ Normalized /\ ~HasSound(input)
    /\ input.numberOfChannels = 2 /\ input.length = 2
    /\ outcome.buffer.data = input.data

(***************************************************************************)
(* The page (Index).  A handler is an operator from the page state to the  *)
(* page state; an action commits what the handler, and the effects React   *)
(* runs after it, leave behind.                                            *)
(***************************************************************************)
\* lastExport is the file the step just taken handed to the browser: a
\* handler starts with none
Page ==
    [heap |-> heap, audioBuffer |-> audioBuffer,
     processedAudioBuffer |-> processedAudioBuffer,
     activePreset |-> activePreset, manualParams |-> manualParams,
     isProcessing |-> isProcessing, isSaving |-> isSaving,
     isPlaying |-> isPlaying, currentTime |-> currentTime,
     activeTab |-> activeTab, originalFile |-> originalFile, user |-> user,
     calls |-> calls, sliders |-> sliders, livePreview |-> livePreview,
     lastExport |-> Undefined, loaded |-> loaded]

\* the buffers something still refers to
Referenced(st) ==
    (IF IsDefined(st.audioBuffer) THEN {Val(st.audioBuffer)} ELSE {})
    \cup (IF IsDefined(st.processedAudioBuffer)
          THEN {Val(st.processedAudioBuffer)} ELSE {})
    \cup (IF IsDefined(st.lastExport) THEN {Val(st.lastExport).buffer} ELSE {})
    \cup (IF IsDefined(st.loaded) THEN {Val(st.loaded).ref} ELSE {})
    \cup {st.calls[i].buffer : i \in 1..Len(st.calls)}

\* a buffer nothing refers to is gone; the others keep their order
Collect(st) ==
    LET live == Referenced(st)
        Rank(i) == Cardinality({j \in live : j <= i})
        At(k) == CHOOSE i \in live : Rank(i) = k
        Move(x) == IF IsDefined(x) THEN Some(Rank(Val(x))) ELSE x
    IN  [st EXCEPT
           !.heap = [k \in 1..Cardinality(live) |-> st.heap[At(k)]],
           !.audioBuffer = Move(st.audioBuffer),
           !.processedAudioBuffer = Move(st.processedAudioBuffer),
           !.calls = [i \in 1..Len(st.calls) |->
                        [st.calls[i] EXCEPT !.buffer = Rank(st.calls[i].buffer)]],
           !.lastExport = IF IsDefined(st.lastExport)
                          THEN Some([Val(st.lastExport) EXCEPT
                                       !.buffer = Rank(Val(st.lastExport).buffer)])
                          ELSE st.lastExport,
           !.loaded = IF IsDefined(st.loaded)
                      THEN Some([Val(st.loaded) EXCEPT
                                   !.ref = Rank(Val(st.loaded).ref)])
                      ELSE st.loaded]

Commit(st) ==
    \E held \in {st} : \E new \in {Collect(held)} :
        /\ Len(new.heap) + Len(new.calls) <= MaxBuffers
        /\ heap' = new.heap
        /\ audioBuffer' = new.audioBuffer
        /\ processedAudioBuffer' = new.processedAudioBuffer
        /\ activePreset' = new.activePreset
        /\ manualParams' = new.manualParams
        /\ isProcessing' = new.isProcessing
        /\ isSaving' = new.isSaving
        /\ isPlaying' = new.isPlaying
        /\ currentTime' = new.currentTime
        /\ activeTab' = new.activeTab
        /\ originalFile' = new.originalFile
        /\ user' = new.user
        /\ calls' = new.calls
        /\ sliders' = new.sliders
        /\ livePreview' = new.livePreview
        /\ lastExport' = new.lastExport
        /\ loaded' = new.loaded
        /\ UNCHANGED <<callVars, wavVars, playerVars, volumeVars>>

\* the files the uploader may hand over, and the buffers they decode to
Files == {[name |-> "song.wav", type |-> "audio/wav"],
          [name |-> "clip.mp4", type |-> "video/mp4"]}

Decoded(file) ==
    IF file.type = "audio/wav"
    THEN AudioBufferOf(<<<<Half, [s |-> -1, m |-> MantHi - 1, e |-> 0 - MantBits - 1]>>>>,
                       44100)
    ELSE AudioBufferOf(<<<<[s |-> 1, m |-> MantLo + 1, e |-> 0 - MantBits]>>,
                         <<[s |-> -1, m |-> MantLo, e |-> 0 - MantBits - 1]>>>>,
                       48000)

\* the presets clicked and the slider positions tried on the page
PagePresets == {"normalize"}
PageSliders == {"bass"}
SliderValues(name) == IF name = "bass" THEN {-15, 0} ELSE {0, 10}

RemoveAt(seq, i) == SubSeq(seq, 1, i - 1) \o SubSeq(seq, i + 1, Len(seq))

\* a processAudio call a handler awaits
Call(kind, buffer, preset, params) ==
    [kind |-> kind, buffer |-> buffer, preset |-> preset, params |-> params,
     pc |-> "rendering"]

handleAudioLoad(st, buffer, file) ==
    [st EXCEPT !.heap = Append(@, buffer),
               !.audioBuffer = Some(Len(st.heap) + 1),
               !.processedAudioBuffer = Undefined,
               !.activePreset = Undefined,
               !.manualParams = Undefined,
               !.originalFile = Some(file),
               !.isPlaying = FALSE,
               !.currentTime = 0,
               !.loaded = Some([ref |-> Len(st.heap) + 1, buffer |-> buffer])]

\* up to the await of processAudio
handlePresetSelect(st, preset) ==
    IF ~IsDefined(st.audioBuffer) \/ ~st.user THEN st
    ELSE [st EXCEPT !.manualParams = Undefined,
                    !.activeTab = "presets",
                    !.isProcessing = TRUE,
                    !.calls = Append(@, Call("preset", Val(st.audioBuffer),
                                             Some(preset), Undefined))]

\* up to the await of processAudio
handleManualParametersChange(st, params) ==
    IF ~IsDefined(st.audioBuffer) THEN st
    ELSE [st EXCEPT !.manualParams = Some(params),
                    !.isProcessing = TRUE,
                    !.calls = Append(@, Call("manual", Val(st.audioBuffer),
                                             Undefined, Some(params)))]

handleResetManualControls(st) ==
    [st EXCEPT !.manualParams = Undefined, !.processedAudioBuffer = Undefined]

handleResetToOriginal(st) ==
    [st EXCEPT !.processedAudioBuffer = Undefined,
               !.activePreset = Undefined,
               !.manualParams = Undefined,
               !.currentTime = 0]

\* up to the await of processAudio
handleSaveManualProcessing(st) ==
    IF ~IsDefined(st.audioBuffer) \/ ~IsDefined(st.manualParams) \/ ~st.user THEN st
    ELSE [st EXCEPT !.isProcessing = TRUE,
                    !.calls = Append(@, Call("save", Val(st.audioBuffer),
                                             Undefined, st.manualParams))]

\* presetSuffix of handleDownload
PresetSuffix(st) ==
    IF IsDefined(st.activePreset) THEN "-" \o Val(st.activePreset)
    ELSE IF IsDefined(st.manualParams) THEN "-custom"
    ELSE ""

\* bufferToExport = processedAudioBuffer || audioBuffer, handed to the exporter
handleDownload(st) ==
    IF ~IsDefined(st.processedAudioBuffer) /\ ~IsDefined(st.audioBuffer) THEN st
    ELSE [st EXCEPT !.lastExport =
            Some([buffer |-> IF IsDefined(st.processedAudioBuffer)
                             THEN Val(st.processedAudioBuffer)
                             ELSE Val(st.audioBuffer),
                  suffix |-> PresetSuffix(st)])]

\* the effect of ManualControls: with live preview on, every change of
\* params, livePreview or onParametersChange calls onParametersChange(params)
ManualControlsEffect(st) ==
    IF st.activeTab = "manual" /\ st.livePreview
    THEN handleManualParametersChange(st, st.sliders)
    ELSE st

\* faulty variant: the render writes its result into the buffer it was given
StoreRenderInPlace(h, source, r) ==
    [heap |-> [h EXCEPT ![source] = r.buffer], ref |-> source]

\* what the resolved promise refers to: a new AudioBuffer object, the object
\* that was passed in, or a value that is no AudioBuffer
StoreRender(h, source, r) ==
    IF r.fresh THEN [heap |-> Append(h, r.buffer), ref |-> Len(h) + 1]
    ELSE IF r.type = "AudioBuffer" THEN [heap |-> h, ref |-> source]
    ELSE [heap |-> Append(h, NoBuffer), ref |-> Len(h) + 1]

\* saveProcessedAudio up to its first await
saveProcessedAudio(st, i) ==
    IF ~st.user \/ ~IsDefined(st.originalFile) THEN st
    ELSE [st EXCEPT !.isSaving = TRUE, !.calls[i].pc = "saving"]

\* after processAudio resolved, up to the next await or the end
AfterRender(st, i, r) ==
    LET c == st.calls[i]
        stored == StoreRender(st.heap, c.buffer, r)
        st1 == [st EXCEPT !.heap = stored.heap,
                          !.processedAudioBuffer = Some(stored.ref)]
    IN  CASE c.kind = "preset" ->
               LET st2 == saveProcessedAudio([st1 EXCEPT !.activePreset = c.preset], i)
               IN  IF st2.calls[i].pc = "saving" THEN st2
                   ELSE [st2 EXCEPT !.currentTime = 0, !.isPlaying = FALSE,
                                    !.isProcessing = FALSE,
                                    !.calls = RemoveAt(@, i)]
          [] c.kind = "manual" ->
               [st1 EXCEPT !.isProcessing = FALSE, !.calls = RemoveAt(@, i)]
          [] c.kind = "save" ->
               LET st2 == saveProcessedAudio(st1, i)
               IN  IF st2.calls[i].pc = "saving" THEN st2
                   ELSE [st2 EXCEPT !.isProcessing = FALSE,
                                    !.calls = RemoveAt(@, i)]

\* catch and finally of the handler that awaited the call
AfterRenderError(st, i) ==
    [st EXCEPT !.isProcessing = FALSE, !.calls = RemoveAt(@, i)]

\* after saveProcessedAudio returned, to the end of the handler
AfterSave(st, i) ==
    LET c == st.calls[i]
        st1 == [st EXCEPT !.isSaving = FALSE]
    IN  IF c.kind = "preset"
        THEN [st1 EXCEPT !.currentTime = 0, !.isPlaying = FALSE,
                         !.isProcessing = FALSE, !.calls = RemoveAt(@, i)]
        ELSE [st1 EXCEPT !.isProcessing = FALSE, !.calls = RemoveAt(@, i)]

IsAudioLoaded == IsDefined(audioBuffer) \/ IsDefined(processedAudioBuffer)

(***************************************************************************)
(* Spec: the page, its controls and the promises it awaits.                *)
(***************************************************************************)
Init ==
    /\ input = NoBuffer
    /\ argPreset = Undefined
    /\ argManual = Undefined
    /\ outcome = NotCalled
    /\ heap = <<>>
    /\ audioBuffer = Undefined
    /\ processedAudioBuffer = Undefined
    /\ activePreset = Undefined
    /\ manualParams = Undefined
    /\ isProcessing = FALSE
    /\ isSaving = FALSE
    /\ isPlaying = FALSE
    /\ currentTime = 0
    /\ activeTab = "presets"
    /\ originalFile = Undefined
    /\ user \in BOOLEAN
    /\ calls = <<>>
    /\ sliders = ZeroParams
    /\ livePreview = TRUE
    /\ lastExport = Undefined
    /\ loaded = Undefined
    /\ wav = NoWav
    /\ player = PlayerNotMounted
    /\ volumes = VolumesNotMounted

\* AudioUploader hands over a decoded file
AudioLoad ==
    \E file \in Files :
        Commit(ManualControlsEffect(handleAudioLoad(Page, Decoded(file), file)))

\* a tab trigger: the content of the other tab is unmounted, ManualControls
\* mounts with its initial state and runs its effect
TabChange ==
    \E tab \in {"presets", "manual"} :
        /\ tab # activeTab
        /\ Commit(ManualControlsEffect(
               [Page EXCEPT !.activeTab = tab, !.sliders = ZeroParams,
                            !.livePreview = TRUE]))

\* a preset button of PresetsPanel (handlePresetClick)
PresetClick ==
    \E preset \in PagePresets :
        /\ activeTab = "presets"
        /\ ~isProcessing
        /\ IsDefined(audioBuffer) /\ user
        /\ Commit(handlePresetSelect(Page, preset))

\* a slider of ManualControls (handleParamChange)
SliderChange ==
    \E name \in PageSliders :
        \E value \in SliderValues(name) :
            /\ activeTab = "manual"
            /\ ~isProcessing
            /\ sliders[name] # Some(value)
            /\ Commit(ManualControlsEffect(
                   [Page EXCEPT !.sliders[name] = Some(value)]))

\* the live preview switch
LivePreviewToggle ==
    /\ activeTab = "manual"
    /\ ~isProcessing
    /\ Commit(ManualControlsEffect([Page EXCEPT !.livePreview = ~livePreview]))

\* the Apply Changes button (applyChanges)
ApplyChanges ==
    /\ activeTab = "manual"
    /\ ~livePreview
    /\ ~isProcessing
    /\ IsDefined(audioBuffer)
    /\ Commit(handleManualParametersChange(Page, sliders))

\* the Reset Controls button (handleReset)
ResetControls ==
    /\ activeTab = "manual"
    /\ ~isProcessing
    /\ Commit(ManualControlsEffect(
           handleResetManualControls([Page EXCEPT !.sliders = ZeroParams])))

\* the Reset to Original button
ResetToOriginal ==
    /\ activeTab = "manual"
    /\ ~isProcessing
    /\ Commit(handleResetToOriginal(Page))

\* the Save to History button
SaveToHistory ==
    /\ activeTab = "manual"
    /\ ~isProcessing
    /\ IsDefined(audioBuffer) /\ IsDefined(manualParams) /\ user
    /\ Commit(handleSaveManualProcessing(Page))

\* a download button or Ctrl+D
Download ==
    /\ IsAudioLoaded
    /\ Commit(handleDownload(Page))

\* the Space key: onPlayPause
PlayPauseKey ==
    /\ IsAudioLoaded
    /\ Commit([Page EXCEPT !.isPlaying = ~isPlaying])

\* the R key: onRestart
RestartKey ==
    /\ IsAudioLoaded
    /\ Commit([Page EXCEPT !.currentTime = 0])

\* the promise of a processAudio call settles
RenderSettles ==
    \E i \in 1..Len(calls) :
        /\ calls[i].pc = "rendering"
        /\ LET r == processAudio(heap[calls[i].buffer], calls[i].preset,
                                 calls[i].params)
           IN  IF r.kind = "rejected" THEN Commit(AfterRenderError(Page, i))
               ELSE Commit(AfterRender(Page, i, r))

\* the rendering itself fails (startRendering rejects)
RenderFails ==
    \E i \in 1..Len(calls) :
        /\ calls[i].pc = "rendering"
        /\ Commit(AfterRenderError(Page, i))

\* saveProcessedAudio returns, whether the upload succeeded or not
SaveSettles ==
    \E i \in 1..Len(calls) :
        /\ calls[i].pc = "saving"
        /\ Commit(AfterSave(Page, i))

Next ==
    \/ AudioLoad \/ TabChange \/ PresetClick \/ SliderChange
    \/ LivePreviewToggle \/ ApplyChanges \/ ResetControls \/ ResetToOriginal
    \/ SaveToHistory \/ Download \/ PlayPauseKey \/ RestartKey
    \/ RenderSettles \/ RenderFails \/ SaveSettles

Spec == Init /\ [][Next]_vars

(***************************************************************************)
(* Properties of the page, checked under Spec.                             *)
(***************************************************************************)
\* C4: rendering never mutates its input: whatever was selected, changed,
\* saved, reset or downloaded, audioBuffer is the buffer the last load
\* installed, with the samples it had then, and a render result is held
\* separately as processedAudioBuffer.
C4_InputNeverMutated ==
    IsDefined(audioBuffer) =>
        /\ IsDefined(loaded)
        /\ Val(loaded).ref = Val(audioBuffer)
        /\ heap[Val(audioBuffer)] = Val(loaded).buffer
        /\ IsDefined(processedAudioBuffer)
              => Val(processedAudioBuffer) # Val(audioBuffer)

C4_Witness ==
    /\ IsDefined(audioBuffer) /\ IsDefined(processedAudioBuffer)
    /\ IsDefined(manualParams) /\ IsDefined(activePreset)
    /\ IsDefined(lastExport)
    /\ Val(lastExport).buffer = Val(processedAudioBuffer)
    /\ heap[Val(processedAudioBuffer)].data # heap[Val(audioBuffer)].data
    /\ heap[Val(audioBuffer)] = Val(loaded).buffer

(***************************************************************************)
(* SpecWav: a caller that holds one buffer and encodes it with one of the  *)
(* copies of audioBufferToWav.                                             *)
(***************************************************************************)
MinusOne == [s |-> -1, m |-> 1, e |-> 0]

\* samples inside and outside [-1, 1], on and off the 16-bit grid
WavSamples ==
    {Zero, [s |-> 1, m |-> 1, e |-> 0], MinusOne,
     [s |-> 1, m |-> 3, e |-> -1], [s |-> -1, m |-> 1, e |-> 1],
     [s |-> 1, m |-> 3, e |-> -2], [s |-> -1, m |-> 3, e |-> -2],
     [s |-> 1, m |-> 1, e |-> -15], [s |-> -1, m |-> 1, e |-> -15],
     [s |-> 1, m |-> 32769, e |-> -16], [s |-> -1, m |-> 32769, e |-> -16],
     [s |-> 1, m |-> 65535, e |-> -16]}

\* for every shape, every place of a sample among copies of another one
WavInputs ==
    UNION {{PeakAt(nch, len, pch, pi, v, rest) :
                pch \in 1..nch, pi \in 1..len,
                v \in WavSamples, rest \in {Zero, MinusOne}}
            : nch \in 1..MaxChannels, len \in 1..MaxFrames}

InitWav ==
    /\ input \in WavInputs
    /\ argPreset = Undefined
    /\ argManual = Undefined
    /\ outcome = NotCalled
    /\ PageNotMounted
    /\ wav = NoWav
    /\ player = PlayerNotMounted
    /\ volumes = VolumesNotMounted

EncodeWav ==
    \E copy \in WavEncoders :
        /\ wav = NoWav
        /\ wav' = [NoWav EXCEPT !.by = copy, !.bytes = audioBufferToWav(input)]
        /\ UNCHANGED <<callVars, pageVars, playerVars, volumeVars>>

DiscardWav ==
    /\ wav # NoWav
    /\ wav' = NoWav
    /\ UNCHANGED <<callVars, pageVars, playerVars, volumeVars>>

\* a download of the buffer: handleDownload awaits exportAudio
ExportAudio ==
    \E encoding \in {"ok", "throws"}, fallback \in {"ok", "throws"} :
        \E done \in {exportAudio(input, encoding, fallback)} :
            /\ wav = NoWav
            /\ wav' = [by |-> "exportAudio", bytes |-> done.bytes,
                       via |-> done.via, settled |-> done.settled,
                       encoding |-> encoding,
                       toast |-> DownloadToast(done.settled)]
            /\ UNCHANGED <<callVars, pageVars, playerVars, volumeVars>>

NextWav == EncodeWav \/ DiscardWav \/ ExportAudio

SpecWav == InitWav /\ [][NextWav]_vars

(***************************************************************************)
(* Properties of audioBufferToWav, checked under SpecWav.                  *)
(***************************************************************************)
Encoded == wav.by \in WavEncoders

\* the signed 16-bit integer stored little-endian at a byte offset
ReadInt16(bytes, offset) ==
    LET u == bytes[offset + 1] + 256 * bytes[offset + 2]
    IN  IF u >= 32768 THEN u - 65536 ELSE u

\* the unsigned 32-bit integer stored little-endian at a byte offset
ReadUint32(bytes, offset) ==
    bytes[offset + 1] + 256 * bytes[offset + 2] + 65536 * bytes[offset + 3]
    + 16777216 * bytes[offset + 4]

\* frames and channels counted from 0, as the claim counts them
SampleAt(i, ch) == input.data.vals[ch + 1][i + 1]
StoredAt(i, ch) == ReadInt16(wav.bytes, 44 + 2 * (i * input.numberOfChannels + ch))

AtLeastOne(x) ==
    /\ x.m # 0
    /\ IF x.e >= 0 THEN x.m * Pow2(x.e) >= 1 ELSE x.m >= Pow2(0 - x.e)

\* C11: every stored 16-bit value lies in [-32768, 32767]; a sample >= 1
\* (also one above 1) is stored as 32767, a sample <= -1 (also one below -1)
\* as -32768, and no stored value has wrapped around to the other sign.
C11_ClippedNeverWraps ==
    Encoded =>
        \A i \in 0..(input.length - 1), ch \in 0..(input.numberOfChannels - 1) :
            LET x == SampleAt(i, ch)
                v == StoredAt(i, ch)
            IN  /\ v \in -32768..32767
                /\ (x.s = 1 /\ AtLeastOne(x)) => v = 32767
                /\ (x.s = -1 /\ AtLeastOne(x)) => v = -32768
                /\ x.s = 1 => v >= 0
                /\ x.s = -1 => v <= 0

C11_Witness ==
    /\ Encoded
    /\ \E i \in 0..(input.length - 1), ch \in 0..(input.numberOfChannels - 1) :
          /\ ExceedsOne(SampleAt(i, ch)) /\ SampleAt(i, ch).s = 1
          /\ StoredAt(i, ch) = 32767
    /\ \E i \in 0..(input.length - 1), ch \in 0..(input.numberOfChannels - 1) :
          /\ SampleAt(i, ch) = MinusOne
          /\ StoredAt(i, ch) = -32768

\* the two conventions by which a stored 16-bit value v is read back as a
\* float: v / 32768, and the inverse of the encoder's scaling (v / 0x8000
\* when negative, v / 0x7FFF otherwise)
Decoders == {"full-scale", "mirrored"}

DecodeDivisor(decoder, v) ==
    IF decoder = "mirrored" /\ v >= 0 THEN 32767 ELSE 32768

\* |x - v / d| <= 1/32768 for the sample x = sign * m * 2^e, e <= 0
WithinQuantum(x, v, d) ==
    LET unit == Pow2(0 - x.e)
        diff == AbsInt(x.s * x.m * d - v * unit)
    IN  IF d = 32768 THEN diff <= unit
        ELSE diff < unit /\ unit - diff >= (unit + 32767) \div 32768

\* C12 as claimed: for a buffer with samples in [-1, 1], reading the stored
\* 16-bit values back as floats gives, for every sample,
\* |original - decoded| <= 1/32768 (under one of the decoding conventions).
C12_RoundTripWithinQuantum ==
    Encoded =>
        \E decoder \in Decoders :
            \A i \in 0..(input.length - 1), ch \in 0..(input.numberOfChannels - 1) :
                ~ExceedsOne(SampleAt(i, ch)) =>
                    WithinQuantum(SampleAt(i, ch), StoredAt(i, ch),
                                  DecodeDivisor(decoder, StoredAt(i, ch)))

\* C13: the encoded file is 44 + frames * channels * 2 bytes long, its RIFF
\* size field is the length minus 8, its data size field is the length
\* minus 44, and the sample of frame i, channel ch is stored at byte offset
\* 44 + 2 * (i * channels + ch).
C13_LengthAndLayout ==
    Encoded =>
        LET total == Len(wav.bytes)
        IN  /\ total = 44 + input.length * input.numberOfChannels * 2
            /\ ReadUint32(wav.bytes, 4) = total - 8
            /\ ReadUint32(wav.bytes, 40) = total - 44
            /\ \A i \in 0..(input.length - 1), ch \in 0..(input.numberOfChannels - 1) :
                  LET offset == 44 + 2 * (i * input.numberOfChannels + ch)
                  IN  SubSeq(wav.bytes, offset + 1, offset + 2)
                          = WriteSample(SampleAt(i, ch))

C13_Witness ==
    /\ Encoded
    /\ input.numberOfChannels = 2 /\ input.length = 2
    /\ SampleAt(1, 0) = [s |-> 1, m |-> 3, e |-> -2]
    /\ SampleAt(0, 1) = Zero
    /\ StoredAt(1, 0) = 24575
    /\ Len(wav.bytes) = 52

(***************************************************************************)
(* The AudioPlayer component (AudioWaveform.tsx): the transport of the      *)
(* page.  Times are whole units.  The device clock is kept relative to the  *)
(* last start: sinceStart is audioContext.currentTime minus                 *)
(* playbackStartTimeRef.current.  A source node is a record                 *)
(*   [duration, offset, played, streaming, ended, cause]:                   *)
(* it streams its buffer from offset, played units so far; ended is         *)
(* "pending" while its ended event waits to be dispatched; cause tells what *)
(* made it finish.  The ended event of a node that was stopped and          *)
(* disconnected is dispatched at some later time or never.                  *)
(***************************************************************************)
\* longest buffer given to the player
MaxDuration == 2
\* source nodes alive at once (streaming, or with an ended event to come)
MaxSources == 2
\* play() calls that may wait for audioContext.resume() at once
MaxResuming == 1
\* the device clock is followed this far past a start
MaxClock == MaxDuration

PlayerDurations == {MaxDuration - 1, MaxDuration}
\* where the pointer may release the slider thumb, the track being
\* [0, max]: left of it, on it, right of it
PointerPositions == (0 - 1)..(MaxDuration + 1)

Min(a, b) == IF a < b THEN a ELSE b
Max(a, b) == IF a > b THEN a ELSE b

\* what the handlers of the player work on: the component's state and refs,
\* and the page's isPlaying and currentTime, which are the setters handed to
\* the player as onPlayStateChange and onTimeUpdate; passed collects the times
\* a handler gives to onTimeUpdate
PlayerView ==
    [p |-> player, onPlayStateChange |-> isPlaying, onTimeUpdate |-> currentTime,
     passed |-> {}]

stopIgnored(node, cause) == node

\* AudioBufferSourceNode.stop(): a node that streams finishes and its ended
\* event is queued; a node that has finished already is left as it is
stop(node, cause) ==
    IF node.streaming
    THEN [node EXCEPT !.streaming = FALSE, !.ended = "pending", !.cause = cause]
    ELSE node

stopPlayback(st, cause) ==
    IF st.p.sourceNodeRef = 0
    THEN st
    ELSE [st EXCEPT !.p.sources[st.p.sourceNodeRef] = stop(@, cause),
                    !.p.sourceNodeRef = 0]

\* play() from stopPlayback() on: what runs at once when the context is
\* running, and after resume() has settled otherwise
PlayNow(st, startPosition, buffer) ==
    LET stopped == stopPlayback(st, "control")
        safePosition == Max(0, Min(startPosition, buffer.duration))
        node == [duration |-> buffer.duration, offset |-> safePosition,
                 played |-> 0, streaming |-> TRUE, ended |-> "none",
                 cause |-> "none"]
    IN  [stopped EXCEPT !.p.sources = Append(@, node),
                        !.p.sourceNodeRef = Len(stopped.p.sources) + 1,
                        !.p.sinceStart = 0,
                        !.p.playbackOffsetRef = safePosition,
                        !.p.isPlaying = TRUE,
                        !.onPlayStateChange = TRUE]

play(st, startPosition) ==
    IF st.p.buffer = Undefined
    THEN st
    ELSE IF st.p.contextState = "suspended"
         THEN [st EXCEPT !.p.resuming =
                   Append(@, [startPosition |-> startPosition,
                              buffer |-> st.p.buffer[1]])]
         ELSE PlayNow(st, startPosition, st.p.buffer[1])

\* the handler play() gives to source.onended
onended(st) ==
    [stopPlayback(st, "callback") EXCEPT !.p.isPlaying = FALSE,
                                         !.p.currentTime = 0,
                                         !.p.sliderValue = 0,
                                         !.p.playbackOffsetRef = 0,
                                         !.onTimeUpdate = 0,
                                         !.passed = @ \cup {0},
                                         !.onPlayStateChange = FALSE]

Elapsed(p) == p.sinceStart + p.playbackOffsetRef

PastEndOnly(elapsed, duration) == elapsed > duration

\* the end-of-playback test of tick
AtEnd(elapsed, duration) == elapsed >= duration

EndOfPlaybackUnreported(st) ==
    [stopPlayback(st, "end") EXCEPT !.p.currentTime = 0,
                                    !.p.sliderValue = 0,
                                    !.p.playbackOffsetRef = 0,
                                    !.p.isPlaying = FALSE]

\* the end-of-playback branch of tick
EndOfPlayback(st) ==
    [stopPlayback(st, "end") EXCEPT !.p.currentTime = 0,
                                    !.p.sliderValue = 0,
                                    !.p.playbackOffsetRef = 0,
                                    !.p.isPlaying = FALSE,
                                    !.onPlayStateChange = FALSE,
                                    !.onTimeUpdate = 0,
                                    !.passed = @ \cup {0}]

tick(st) ==
    LET elapsed == Elapsed(st.p)
        shown == [st EXCEPT !.p.currentTime = elapsed,
                            !.p.sliderValue =
                                IF st.p.userIsDragging THEN @ ELSE elapsed,
                            !.onTimeUpdate = elapsed,
                            !.passed = @ \cup {elapsed}]
    IN  IF AtEnd(elapsed, st.p.duration) THEN EndOfPlayback(shown) ELSE shown

togglePlayPause(st) ==
    IF st.p.isPlaying
    THEN LET currentPosition == Elapsed(st.p)
             held == [st EXCEPT !.p.playbackOffsetRef =
                          Max(0, Min(currentPosition, st.p.duration))]
         IN  [stopPlayback(held, "control") EXCEPT !.p.isPlaying = FALSE,
                                                   !.onPlayStateChange = FALSE]
    ELSE play(st, st.p.playbackOffsetRef)

handleRestart(st) ==
    LET rewound == [stopPlayback(st, "control") EXCEPT
                        !.p.currentTime = 0,
                        !.p.sliderValue = 0,
                        !.p.playbackOffsetRef = 0,
                        !.onTimeUpdate = 0,
                        !.passed = @ \cup {0}]
    IN  IF st.p.isPlaying THEN play(rewound, 0) ELSE rewound

handleSeek(st, position) ==
    LET moved == [st EXCEPT !.p.playbackOffsetRef = position,
                            !.p.currentTime = position,
                            !.p.sliderValue = position,
                            !.onTimeUpdate = position,
                            !.passed = @ \cup {position}]
    IN  IF st.p.isPlaying
        THEN play(stopPlayback(moved, "control"), position)
        ELSE moved

SliderValueUnbounded(raw, duration) == raw

\* the value the Slider hands to onValueCommit for a pointer released at raw:
\* a value of its track, min = 0 to max = duration || 1
SliderValue(raw, duration) ==
    Max(0, Min(raw, IF duration = 0 THEN 1 ELSE duration))

onValueCommit(st, value) ==
    handleSeek([st EXCEPT !.p.userIsDragging = FALSE], value)

\* the effect on [audioBuffer, processedAudioBuffer]
DurationEffect(st, buffer) ==
    [st EXCEPT !.p.buffer = buffer,
               !.p.duration = IF buffer = Undefined THEN 0 ELSE buffer[1].duration,
               !.p.sliderValue = 0,
               !.p.currentTime = 0,
               !.p.playbackOffsetRef = 0]

\* a source node that neither streams nor has an event to come, and that
\* sourceNodeRef does not hold, is garbage
Alive(p, i) ==
    \/ p.sources[i].streaming
    \/ p.sources[i].ended = "pending"
    \/ i = p.sourceNodeRef

AliveUpTo(p, n) == Cardinality({i \in 1..n : Alive(p, i)})

\* of a node that has finished, only the event to come is of any effect
Finished(node) ==
    IF node.streaming
    THEN node
    ELSE [node EXCEPT !.duration = 0, !.offset = 0, !.played = 0]

CollectSources(p) ==
    [p EXCEPT !.sources =
                  [k \in 1..AliveUpTo(p, Len(p.sources)) |->
                      Finished(p.sources[CHOOSE i \in 1..Len(p.sources) :
                                             Alive(p, i) /\ AliveUpTo(p, i) = k])],
              !.sourceNodeRef = IF @ = 0 THEN 0 ELSE AliveUpTo(p, @),
              !.sinceStart = IF p.isPlaying THEN @ ELSE 0]

\* the page's variables the player has no setter for
pageRest == <<heap, audioBuffer, processedAudioBuffer, activePreset,
              manualParams, isProcessing, isSaving, activeTab, originalFile,
              user, calls, sliders, livePreview, lastExport, loaded>>

\* React commits what a handler of the player has set; last records what
\* was asked of the player and passed the times it gave to onTimeUpdate
CommitPlayer(st, last) ==
    \E new \in {CollectSources(st.p)} :
        /\ Len(new.sources) <= MaxSources
        /\ Len(new.resuming) <= MaxResuming
        /\ player' = [new EXCEPT !.last = last, !.passed = st.passed]
        /\ isPlaying' = st.onPlayStateChange
        /\ currentTime' = st.onTimeUpdate
        /\ UNCHANGED <<callVars, wavVars, pageRest, volumeVars>>

Asked(op, arg) ==
    [op |-> op, arg |-> arg, cause |-> "none"]

InitPlayer ==
    /\ input = NoBuffer
    /\ argPreset = Undefined
    /\ argManual = Undefined
    /\ outcome = NotCalled
    /\ PageNotMounted
    /\ wav = NoWav
    /\ volumes = VolumesNotMounted
    /\ \E state \in {"suspended", "running"} :
           player = [PlayerNotMounted EXCEPT !.contextState = state]

\* the page gives the player another buffer (a decoded file, a render)
BufferChange ==
    \E duration \in PlayerDurations :
        CommitPlayer(DurationEffect(PlayerView, Some([duration |-> duration])),
                     Asked("buffer", 0))

PlayPauseClick ==
    /\ player.buffer # Undefined
    /\ \E st \in {togglePlayPause(PlayerView)} :
           CommitPlayer(st, Asked(IF player.isPlaying THEN "pause" ELSE "play", 0))

RestartClick ==
    /\ player.buffer # Undefined
    /\ CommitPlayer(handleRestart(PlayerView), Asked("restart", 0))

SliderCommit ==
    /\ player.buffer # Undefined
    /\ \E raw \in PointerPositions :
           CommitPlayer(onValueCommit(PlayerView, SliderValue(raw, player.duration)),
                        Asked("seek", raw))

\* a frame of the animation loop, which runs while isPlaying
Tick ==
    /\ player.isPlaying
    /\ CommitPlayer(tick(PlayerView), Asked("tick", 0))

\* the device plays one more unit: every streaming node moves on, and one
\* that has played its buffer out finishes
Advance(node) ==
    IF ~node.streaming
    THEN node
    ELSE IF node.offset + node.played + 1 >= node.duration
         THEN [node EXCEPT !.played = Max(0, node.duration - node.offset),
                           !.streaming = FALSE,
                           !.ended = "pending", !.cause = "end"]
         ELSE [node EXCEPT !.played = @ + 1]

ClockAdvance ==
    /\ player.contextState = "running"
    /\ player.isPlaying
    /\ player.sinceStart < MaxClock
    /\ CommitPlayer([PlayerView EXCEPT
                         !.p.sinceStart = @ + 1,
                         !.p.sources = [i \in 1..Len(@) |-> Advance(@[i])]],
                    Asked("clock", 0))

\* the ended event of a node is dispatched
SourceEnded ==
    \E i \in 1..Len(player.sources) :
        /\ player.sources[i].ended = "pending"
        /\ CommitPlayer(onended([PlayerView EXCEPT !.p.sources[i].ended = "none"]),
                        [Asked("ended", 0) EXCEPT !.cause = player.sources[i].cause])

\* the play() calls that waited for resume() go on, one after the other, in
\* the order they were made
RECURSIVE PlayResumed(_, _)
PlayResumed(st, waiting) ==
    IF waiting = <<>>
    THEN st
    ELSE PlayResumed(PlayNow(st, Head(waiting).startPosition, Head(waiting).buffer),
                     Tail(waiting))

\* audioContext.resume() settles: the context runs, and the promises of all
\* the calls of resume() are resolved together
ResumeSettles ==
    /\ player.resuming # <<>>
    /\ CommitPlayer(PlayResumed([PlayerView EXCEPT !.p.contextState = "running",
                                                   !.p.resuming = <<>>],
                                player.resuming),
                    Asked("resumed", 0))

NextPlayer ==
    \/ BufferChange
    \/ PlayPauseClick
    \/ RestartClick
    \/ SliderCommit
    \/ Tick
    \/ ClockAdvance
    \/ SourceEnded
    \/ ResumeSettles

SpecPlayer == InitPlayer /\ [][NextPlayer]_vars

\* the same transport under a clock that keeps running and an animation
\* loop that keeps being served while they can go on
SpecPlayerFair ==
    /\ InitPlayer
    /\ [][NextPlayer]_vars
    /\ WF_vars(ClockAdvance)
    /\ WF_vars(Tick)

Clamp(t, duration) == Max(0, Min(t, duration))

\* the source node the player holds streams
Streaming(p) ==
    /\ p.sourceNodeRef # 0
    /\ p.sources[p.sourceNodeRef].streaming

StreamingNodes(p) == {i \in 1..Len(p.sources) : p.sources[i].streaming}

\* not playing, rewound, and the page told so
Stopped ==
    /\ ~player.isPlaying
    /\ player.currentTime = 0
    /\ player.playbackOffsetRef = 0
    /\ isPlaying = FALSE
    /\ currentTime = 0

\* C14: a seek (the thumb of the slider released at t, on the track or off
\* it) leaves the play state as it was and sets the position shown, the
\* stored offset and the time given to the page to t clamped to
\* [0, duration]; a playing player streams from there.
C14_SeekKeepsStateAndClamps ==
    [][player'.last.op = "seek" =>
          /\ player'.isPlaying = player.isPlaying
          /\ player'.currentTime = Clamp(player'.last.arg, player.duration)
          /\ player'.playbackOffsetRef = Clamp(player'.last.arg, player.duration)
          /\ currentTime' = Clamp(player'.last.arg, player.duration)
          /\ player'.duration = player.duration
          /\ player.isPlaying =>
                 /\ Streaming(player')
                 /\ player'.sources[player'.sourceNodeRef].offset
                        = Clamp(player'.last.arg, player.duration)]_vars

\* a playing player after the thumb was released right of the track
C14_Witness ==
    /\ player.last.op = "seek"
    /\ player.last.arg > player.duration
    /\ player.isPlaying
    /\ player.currentTime = player.duration
    /\ player.playbackOffsetRef = player.duration

\* C15: a seek past the end of the buffer while playing sets the position to
\* the duration and starts the source there, and the next frame of the
\* animation loop or ended callback leaves the player stopped.
C15_SeekPastEndStops ==
    [][/\ (player.isPlaying /\ player'.last.op = "seek"
                            /\ player'.last.arg > player.duration) =>
              /\ player'.currentTime = player.duration
              /\ player'.isPlaying
              /\ Streaming(player')
              /\ player'.sources[player'.sourceNodeRef].offset = player.duration
       /\ (player.isPlaying /\ player.last.op = "seek"
                            /\ player.last.arg > player.duration
                            /\ player'.last.op \in {"tick", "ended"}) =>
              Stopped']_vars

\* playing from 0, then a seek past the end: the source is started at the end
C15_Witness ==
    /\ player.last.op = "seek"
    /\ player.last.arg = player.duration + 1
    /\ player.isPlaying
    /\ player.sinceStart = 0
    /\ Streaming(player)
    /\ player.sources[player.sourceNodeRef].offset = player.duration
    /\ Len(player.sources) = 2

\* C16: a restart from any state leaves the player playing at position 0.
C16_RestartLeavesPlaying ==
    player.last.op = "restart" =>
        /\ player.isPlaying
        /\ player.currentTime = 0
        /\ player.playbackOffsetRef = 0

\* C17: a frame of the animation loop that finds the position at or past the
\* duration, and the ended callback of a source that has played its buffer
\* out, leave the player not playing with position and stored offset 0 and
\* the page told play state false and time 0; and a playing player is
\* eventually stopped so, or paused, seeked or restarted.
C17_EndOfBufferStops ==
    /\ [][/\ (player.isPlaying /\ player'.last.op = "tick"
                  /\ Elapsed(player) >= player.duration) => Stopped'
          /\ (player'.last.op = "ended" /\ player'.last.cause = "end")
                  => Stopped']_vars
    /\ player.isPlaying
           ~> (Stopped \/ player.last.op \in {"pause", "seek", "restart"})

\* the animation loop has just stopped a player at the end of its buffer
C17_Witness ==
    /\ player.last.op = "tick"
    /\ Stopped
    /\ player.buffer # Undefined
    /\ \E i \in 1..Len(player.sources) :
           /\ player.sources[i].ended = "pending"
           /\ player.sources[i].cause = "end"

\* C18: while the player is not playing, neither a play request nor an ended
\* callback moves the stored position, and the source that a play request
\* starts streams from that position.
C18_PauseKeepsPosition ==
    [][(~player.isPlaying /\ player'.last.op \in {"play", "ended"}) =>
          /\ player'.playbackOffsetRef = player.playbackOffsetRef
          /\ player'.isPlaying =>
                 /\ Streaming(player')
                 /\ player'.sources[player'.sourceNodeRef].offset
                        = player.playbackOffsetRef]_vars

\* C19: the ended callback of a source that a control request stopped
\* changes neither the play state nor the position, and stops no source.
C19_StoppedSourceIsSilent ==
    [][(player'.last.op = "ended" /\ player'.last.cause = "control") =>
          /\ player'.isPlaying = player.isPlaying
          /\ player'.currentTime = player.currentTime
          /\ player'.playbackOffsetRef = player.playbackOffsetRef
          /\ Cardinality(StreamingNodes(player'))
                 = Cardinality(StreamingNodes(player))]_vars

\* C20: the position a frame of the animation loop reports while playing is
\* the offset the streaming source has reached.
C20_ReportedIsPlayed ==
    (player.last.op = "tick" /\ player.isPlaying) =>
        /\ Streaming(player)
        /\ player.currentTime
               = player.sources[player.sourceNodeRef].offset
                     + player.sources[player.sourceNodeRef].played
        /\ currentTime = player.currentTime

\* C21: in every state of the player the stored offset, the current time and
\* every time given to onTimeUpdate by the last handler lie in [0, duration].
C21_PositionWithinBuffer ==
    /\ 0 <= player.playbackOffsetRef
    /\ player.playbackOffsetRef <= player.duration
    /\ 0 <= player.currentTime
    /\ player.currentTime <= player.duration
    /\ \A t \in player.passed : 0 <= t /\ t <= player.duration

\* C22: when the player is given another buffer it is left not playing at
\* position 0 and no source node streams.
C22_BufferChangeEndsSession ==
    player.last.op = "buffer" =>
        /\ ~player.isPlaying
        /\ player.currentTime = 0
        /\ player.playbackOffsetRef = 0
        /\ StreamingNodes(player) = {}

VolumeSteps == 100

\* AudioPlayer's effect on [isMuted]
MuteEffect(a) ==
    IF a.isMuted
    THEN [a EXCEPT !.previousVolumeRef = IF a.gain > 0 THEN a.gain ELSE @,
                   !.gain = 0]
    ELSE [a EXCEPT !.gain = IF a.previousVolumeRef > 0
                            THEN a.previousVolumeRef
                            ELSE DefaultGain]

toggleMute(a) == MuteEffect([a EXCEPT !.isMuted = ~@])

\* SimpleAudioPlayer's effect on [volume, isMuted]
VolumeEffect(s) == [s EXCEPT !.gain = IF s.isMuted THEN 0 ELSE s.volume]

\* the onClick of SimpleAudioPlayer's mute button
SimpleToggleMute(s) == VolumeEffect([s EXCEPT !.isMuted = ~@])

handleVolumeChange(s, value) == VolumeEffect([s EXCEPT !.volume = value])

\* a click on a mute button: before keeps the gain that was in effect when
\* the player was muted, and hands it to last when it is unmuted
MuteClicked(who, new) ==
    /\ volumes' =
           [volumes EXCEPT
               ![who] = new,
               !.before[who] = IF new.isMuted THEN Some(volumes[who].gain)
                               ELSE Undefined,
               !.last = [of |-> who,
                         op |-> IF new.isMuted THEN "mute" ELSE "unmute",
                         before |-> IF new.isMuted THEN Undefined
                                    ELSE volumes.before[who]]]
    /\ UNCHANGED <<callVars, pageVars, wavVars, playerVars>>

InitVolume ==
    /\ input = NoBuffer
    /\ argPreset = Undefined
    /\ argManual = Undefined
    /\ outcome = NotCalled
    /\ PageNotMounted
    /\ wav = NoWav
    /\ player = PlayerNotMounted
    /\ volumes = VolumesNotMounted

PlayerMuteClick == MuteClicked("AudioPlayer", toggleMute(volumes.AudioPlayer))

SimpleMuteClick ==
    MuteClicked("SimpleAudioPlayer", SimpleToggleMute(volumes.SimpleAudioPlayer))

\* the volume slider is moved; a mute that is on no longer has the gain it
\* replaced to hand back
SimpleVolumeChange ==
    \E value \in 0..VolumeSteps :
        /\ volumes' =
               [volumes EXCEPT
                   !.SimpleAudioPlayer = handleVolumeChange(@, value),
                   !.before.SimpleAudioPlayer = Undefined,
                   !.last = [of |-> "SimpleAudioPlayer", op |-> "volume",
                             before |-> Undefined]]
        /\ UNCHANGED <<callVars, pageVars, wavVars, playerVars>>

NextVolume == PlayerMuteClick \/ SimpleMuteClick \/ SimpleVolumeChange

SpecVolume == InitVolume /\ [][NextVolume]_vars

\* C23: after an unmute the gain of the player is not 0, and it is the gain
\* that was in effect immediately before the matching mute (no volume change
\* having come between).
C23_UnmuteRestoresGain ==
    volumes.last.op = "unmute" =>
        /\ volumes[volumes.last.of].gain # 0
        /\ volumes.last.before # Undefined =>
               volumes[volumes.last.of].gain = volumes.last.before[1]

(***************************************************************************)
(* The player on the page, with the page's keyboard shortcuts               *)
(* (KeyboardShortcuts.tsx as wired by Index.tsx).                           *)
(***************************************************************************)
\* the handler the page gives as onPlayPause: setIsPlaying((prev) => !prev)
onPlayPause(st) == [st EXCEPT !.onPlayStateChange = ~@]

\* the handler the page gives as onRestart: setCurrentTime(0)
onRestart(st) == [st EXCEPT !.onTimeUpdate = 0]

\* handleKeyDown: installed while audio is loaded, it leaves alone a key
\* typed into an input or a textarea
handleKeyDown(st, key, inTextInput) ==
    IF inTextInput
    THEN st
    ELSE CASE key = " " -> onPlayPause(st)
           [] key = "r" -> onRestart(st)
           [] OTHER -> st

KeyDown ==
    /\ player.buffer # Undefined
    /\ \E key \in {" ", "r", "x"}, inTextInput \in BOOLEAN :
           CommitPlayer(handleKeyDown(PlayerView, key, inTextInput),
                        Asked(IF inTextInput THEN "typed" ELSE key, 0))

NextPlayerOnPage == NextPlayer \/ KeyDown

SpecPlayerOnPage == InitPlayer /\ [][NextPlayerOnPage]_vars

\* C24: after Space is pressed outside a text input while audio is loaded,
\* the page's isPlaying flag and the player's own isPlaying agree.
C24_SpaceTogglesPlayer ==
    player.last.op = " " => isPlaying = player.isPlaying

\* C26: the byte-rate field of the header (offset 28) is the sample rate
\* times the block align, channel count x 2 bytes, in every copy of the
\* encoder.
C26_ByteRateIsRateTimesBlockAlign ==
    Encoded =>
        ReadUint32(wav.bytes, 28)
            = input.sampleRate * (input.numberOfChannels * 2)

\* C25: a download whose encoding step failed is reported as failed, and no
\* file made by another path is handed out.
C25_EncodingFailureSurfaces ==
    (wav.by = "exportAudio" /\ wav.encoding = "throws") =>
        /\ wav.settled = "rejected"
        /\ wav.toast = "Export failed"
        /\ wav.via = "none"

\* every render the page can ask for of a buffer: a preset of the panel, or
\* the sliders of ManualControls at one of their positions
PageRequests ==
    {[preset |-> Some(p), params |-> Undefined] : p \in PagePresets}
    \cup {[preset |-> Undefined, params |-> Some(ZeroParams)]}
    \cup {[preset |-> Undefined, params |-> Some([ZeroParams EXCEPT ![n] = Some(v)])] :
            n \in PageSliders, v \in SliderValues("bass")}

RendersOf(buffer) ==
    {processAudio(buffer, q.preset, q.params).buffer : q \in PageRequests}

\* C27: a processed buffer on the page is a render of the audio buffer that
\* is loaded now: a call started for an earlier file never installs its
\* result over the state of a newer one.
C27_ProcessedIsRenderOfLoaded ==
    IsDefined(processedAudioBuffer) =>
        /\ IsDefined(audioBuffer)
        /\ heap[Val(processedAudioBuffer)] \in RendersOf(heap[Val(audioBuffer)])

\* the processAudio calls of the page still rendering
InFlight == {i \in 1..Len(calls) : calls[i].pc = "rendering"}

\* C29: the processing flag is up while a processAudio call started by the
\* page is in flight, and down once every handler that awaited one is done:
\* a call that ends does not clear the flag under a call still running.
C29_ProcessingFlagCoversCalls ==
    /\ InFlight # {} => isProcessing
    /\ calls = <<>> => ~isProcessing

\* the renders of any file of the uploader for a request
RendersFor(q) ==
    {processAudio(Decoded(file), q.preset, q.params).buffer : file \in Files}

\* C30: a download exports the processed buffer if there is one and the
\* original otherwise; the file name carries "-<preset>" only when the
\* exported buffer is a render of that preset, "-custom" only when it is a
\* render of manual parameters, and no suffix when the original is exported.
C30_SuffixTellsWhatIsExported ==
    IsDefined(lastExport) =>
        LET export == Val(lastExport)
            exported == heap[export.buffer]
        IN  /\ export.buffer = IF IsDefined(processedAudioBuffer)
                               THEN Val(processedAudioBuffer)
                               ELSE Val(audioBuffer)
            /\ \A p \in PagePresets :
                  export.suffix = "-" \o p =>
                      /\ IsDefined(processedAudioBuffer)
                      /\ exported \in RendersFor([preset |-> Some(p),
                                                  params |-> Undefined])
            /\ export.suffix = "-custom" =>
                  /\ IsDefined(processedAudioBuffer)
                  /\ \E q \in PageRequests :
                        /\ IsDefined(q.params)
                        /\ exported \in RendersFor(q)
            /\ ~IsDefined(processedAudioBuffer) => export.suffix = ""

=============================================================================
